---- MODULE Spec2Model ----
(***************************************************************************)
(* Model of ClaudeIsland/Resources/claude-island-state.py: one invocation  *)
(* of the hook reads one event record from standard input, builds the      *)
(* canonical state, optionally attaches the recent conversation read from  *)
(* the session's JSONL log, and sends the state to the observer over a     *)
(* Unix or TCP socket.  For PermissionRequest it waits for the observer's  *)
(* decision and prints a decision artifact.                                *)
(*                                                                         *)
(* JSON values are modelled as strings; Absent marks a key that is not in  *)
(* a dict / an environment variable that is not set, Null is JSON null     *)
(* (Python None).                                                          *)
(***************************************************************************)
EXTENDS Integers, Sequences, FiniteSets, TLC

VARIABLES
    pc,            \* position of the process in main / send_event
    stdin,         \* what is on standard input: [kind, data]
    env,           \* os.environ: [host, port]
    ttyres,        \* what get_tty() resolves to in this process
    state,         \* the canonical state dict built by main (function key -> value)
    conversation,  \* the list stored under state["conversation"] (when that key is present)
    caller,        \* which call site of send_event is active: "perm" | "final" | "none"
    response,      \* return value of send_event(state) as seen by main
    reply,         \* bytes returned by sock.recv (ReplyNone when no recv returned data)
    sent,          \* sequence of the states written with sock.sendall
    connects,      \* number of sock.connect calls made
    endpoint,      \* result of get_connection_config() in the active send_event call
    recvs,         \* number of sock.recv calls made
    stdout,        \* sequence of documents printed to standard output
    exitcode,      \* process exit status (NotExited while running)
    raised,        \* the exception that escaped to the interpreter, or "none"
    readerCalls,   \* number of get_jsonl_path calls made
    parseCalls,    \* number of parse_jsonl_messages calls made
    fs,            \* the part of the file system the Log Tail Reader saw
    ops,           \* the socket operations send_event has called, in order
    clock,         \* seconds spent so far inside the blocking socket calls of send_event
    limitArg,      \* the limit argument of the parse_jsonl_messages call (NoLimit before it)
    prior          \* the state an earlier invocation built from the same record, if any

vars == <<pc, stdin, env, ttyres, state, conversation, caller, response, reply,
          sent, connects, endpoint, recvs, stdout, exitcode, raised,
          readerCalls, parseCalls, fs, ops, clock, limitArg, prior>>

----------------------------------------------------------------------------
(* Program constants *)

SOCKET_PATH == "/tmp/claude-island.sock"
TIMEOUT_SECONDS_Doubled == 300 * 2

\* TIMEOUT_SECONDS = 300, handed to sock.settimeout (line 163)
TIMEOUT_SECONDS == 300

DEFAULT_TCP_PORT == 52945
TAIL_WINDOW == 100        \* lines[-100:]
MAIN_LIMIT == 20          \* parse_jsonl_messages(jsonl_path, limit=20)
MAX_PORT == 65535         \* largest port sock.connect accepts
DEFAULT_LIMIT == 10       \* def parse_jsonl_messages(jsonl_path, limit=10)

(* Bounds of the model *)

MaxTail == 2              \* number of individually chosen trailing log lines
MidRun == 25              \* length of a medium run of equal log lines
LongRun == 99             \* length of a long run of equal log lines
SlowStep == 200           \* seconds a slow socket call takes that does not time out
MaxLimit == 2             \* largest small limit handed to parse_jsonl_messages

----------------------------------------------------------------------------
(* JSON / Python value helpers *)

Absent == "<absent>"
Null == "null"
NotExited == -1
NoLimit == -1

\* Python truthiness of a (string-modelled) value: None and "" are falsy
Truthy(v) == v \notin {Absent, Null, ""}

\* dict.get(k, default)
Get(d, k, default) == IF d[k] = Absent THEN default ELSE d[k]

\* a or b
Or(a, b) == IF Truthy(a) THEN a ELSE b

\* d[k] = v on a dict modelled as a function
Put(d, k, v) == [x \in (DOMAIN d) \cup {k} |-> IF x = k THEN v ELSE d[x]]

EmptyDict == [x \in {} |-> Absent]

Min(a, b) == IF a < b THEN a ELSE b

\* s[-n:] for n > 0
LastN(s, n) == IF Len(s) <= n THEN s ELSE SubSeq(s, Len(s) - n + 1, Len(s))

\* s[-n:] as Python evaluates it: -0 is 0, so s[-0:] is the whole list
PySliceLast(s, n) == IF n = 0 THEN s ELSE LastN(s, n)

----------------------------------------------------------------------------
(* Inputs: raw event records *)

DataKeys == {"session_id", "hook_event_name", "cwd", "tool_input", "tool_name",
             "tool_use_id", "message", "prompt", "user_prompt",
             "notification_type", "stop_reason"}

Recognized == {"UserPromptSubmit", "PreToolUse", "PostToolUse", "PermissionRequest",
               "Notification", "Stop", "SubagentStop", "SessionStart",
               "SessionEnd", "PreCompact"}

\* category strings that are not recognized (Absent: the key is missing)
Unrecognized == {Absent, "", "stop", "FooBarEvent"}

ConversationEvents == {"Stop", "UserPromptSubmit", "SessionStart", "Notification"}

NoPayload == [k \in DataKeys |-> Absent]

Opt(v) == {Absent, v}

\* the category-specific payloads of an event category
Payloads(ev) ==
    LET b == [NoPayload EXCEPT !["hook_event_name"] = ev] IN
    CASE ev = "UserPromptSubmit" ->
           {b} \cup {[b EXCEPT ![k] = "hello"] : k \in {"message", "prompt", "user_prompt"}}
             \cup {[b EXCEPT !["message"] = "", !["prompt"] = "hello"]}
      [] ev \in {"PreToolUse", "PostToolUse"} ->
           {[b EXCEPT !["tool_name"] = tn, !["tool_input"] = ti, !["tool_use_id"] = tu] :
              tn \in Opt("Bash"), ti \in Opt("{cmd}"), tu \in Opt("toolu_1")}
      [] ev = "PermissionRequest" ->
           {[b EXCEPT !["tool_name"] = tn, !["tool_input"] = ti] :
              tn \in Opt("Bash"), ti \in Opt("{cmd}")}
      [] ev = "Notification" ->
           {[b EXCEPT !["notification_type"] = nt, !["message"] = m] :
              nt \in {Absent, "permission_prompt", "idle_prompt", "auth_success"},
              m \in Opt("note")}
      [] ev = "Stop" ->
           {[b EXCEPT !["stop_reason"] = sr, !["message"] = m] :
              sr \in Opt("end_turn"), m \in Opt("bye")}
      [] OTHER -> {b}

\* every record carries a session identifier; the working directory is optional
Records ==
    {[p EXCEPT !["cwd"] = c, !["session_id"] = "s1"] :
        p \in UNION {Payloads(ev) : ev \in Recognized \cup Unrecognized},
        c \in {Absent, "/w"}}

\* standard input: not JSON at all, JSON that is not an object, or an object
Stdins ==
    {[kind |-> "garbage", data |-> NoPayload], [kind |-> "nonobject", data |-> NoPayload]}
      \cup {[kind |-> "object", data |-> d] : d \in Records}

\* CLAUDE_ISLAND_HOST / CLAUDE_ISLAND_PORT
Envs ==
    {[host |-> Absent, port |-> Absent], [host |-> "", port |-> Absent]}
      \cup {[host |-> "mac", port |-> p] : p \in {Absent, "52946", "abc", "70000"}}

TTYs == {Null, "/dev/ttys001"}

----------------------------------------------------------------------------
(* Transport Selector *)

NoPort == -1

Digits == <<"0", "1", "2", "3", "4", "5", "6", "7", "8", "9">>

IsDigit(c) == \E i \in 1..10 : Digits[i] = c

DigitVal(c) == (CHOOSE i \in 1..10 : Digits[i] = c) - 1

\* the characters of the environment strings the model uses
Chars(s) ==
    CASE s = "52946" -> <<"5", "2", "9", "4", "6">>
      [] s = "70000" -> <<"7", "0", "0", "0", "0">>
      [] s = "abc" -> <<"a", "b", "c">>
      [] OTHER -> <<>>

RECURSIVE DecimalValue(_)
DecimalValue(cs) ==
    IF cs = <<>> THEN 0
    ELSE 10 * DecimalValue(SubSeq(cs, 1, Len(cs) - 1)) + DigitVal(cs[Len(cs)])

\* int(s) raises ValueError unless s is a non-empty digit string
IntRaises(s) == Chars(s) = <<>> \/ \E i \in 1..Len(Chars(s)) : ~IsDigit(Chars(s)[i])

\* int(s) for a string of decimal digits
int(s) == DecimalValue(Chars(s))

\* get_connection_config() raises ValueError when CLAUDE_ISLAND_PORT is not an integer
ConfigRaises(e) == Truthy(e.host) /\ e.port # Absent /\ IntRaises(e.port)

get_connection_config(e) ==
    IF Truthy(e.host)
    THEN [type |-> "tcp", host |-> e.host,
          port |-> IF e.port = Absent THEN DEFAULT_TCP_PORT ELSE int(e.port)]
    ELSE [type |-> "unix", host |-> SOCKET_PATH, port |-> NoPort]

is_remote_session(e) == e.host # Absent

NoEndpoint == [type |-> "none", host |-> "", port |-> NoPort]

\* sock.connect((host, port)) raises OverflowError for a port outside 0..65535
ConnectOverflows(ep) == ep.type = "tcp" /\ (ep.port < 0 \/ ep.port > MAX_PORT)

----------------------------------------------------------------------------
(* Event Normalizer: main, lines 192-314 *)

\* variant: the Stop branch assigns the status of the prompt branch
StatusOf_StopProcessing(event, ntype) ==
    CASE event \in {"UserPromptSubmit", "PostToolUse", "Stop"} -> "processing"
      [] event = "PreToolUse" -> "running_tool"
      [] event = "PermissionRequest" -> "waiting_for_approval"
      [] event = "Notification" ->
            IF ntype = "idle_prompt" THEN "waiting_for_input" ELSE "notification"
      [] event \in {"SubagentStop", "SessionStart"} -> "waiting_for_input"
      [] event = "SessionEnd" -> "ended"
      [] event = "PreCompact" -> "compacting"
      [] OTHER -> "unknown"

\* variant: the category is matched without regard to case
StatusOf_IgnoreCase(event, ntype) ==
    CASE event \in {"UserPromptSubmit", "PostToolUse"} -> "processing"
      [] event = "PreToolUse" -> "running_tool"
      [] event = "PermissionRequest" -> "waiting_for_approval"
      [] event = "Notification" ->
            IF ntype = "idle_prompt" THEN "waiting_for_input" ELSE "notification"
      [] event \in {"Stop", "stop", "SubagentStop", "SessionStart"} -> "waiting_for_input"
      [] event = "SessionEnd" -> "ended"
      [] event = "PreCompact" -> "compacting"
      [] OTHER -> "unknown"

\* the status main assigns for an event category and notification subtype
StatusOf(event, ntype) ==
    CASE event = "UserPromptSubmit" -> "processing"
      [] event = "PreToolUse" -> "running_tool"
      [] event = "PostToolUse" -> "processing"
      [] event = "PermissionRequest" -> "waiting_for_approval"
      [] event = "Notification" ->
            IF ntype = "idle_prompt" THEN "waiting_for_input" ELSE "notification"
      [] event = "Stop" -> "waiting_for_input"
      [] event = "SubagentStop" -> "waiting_for_input"
      [] event = "SessionStart" -> "waiting_for_input"
      [] event = "SessionEnd" -> "ended"
      [] event = "PreCompact" -> "compacting"
      [] OTHER -> "unknown"

\* variant: the permission_prompt subtype is not singled out
IsSuppressed_Never(data) == FALSE

\* the Notification branch leaves main through sys.exit(0) before anything is sent
IsSuppressed(data) ==
    /\ Get(data, "hook_event_name", "") = "Notification"
    /\ Get(data, "notification_type", Null) = "permission_prompt"

BaseKeys == {"session_id", "cwd", "event", "pid", "tty"}

\* variant: a number kept from one invocation to the next is put where the pid is
BaseState_Counted(data, tty) ==
    [k \in BaseKeys |->
        CASE k = "session_id" -> Get(data, "session_id", "unknown")
          [] k = "cwd" -> Get(data, "cwd", "")
          [] k = "event" -> Get(data, "hook_event_name", "")
          [] k = "pid" -> IF prior.set THEN "2" ELSE "1"
          [] k = "tty" -> tty]

\* the state dict of lines 202-208; os.getppid() is the same agent process for
\* every invocation
BaseState(data, tty) ==
    [k \in BaseKeys |->
        CASE k = "session_id" -> Get(data, "session_id", "unknown")
          [] k = "cwd" -> Get(data, "cwd", "")
          [] k = "event" -> Get(data, "hook_event_name", "")
          [] k = "pid" -> "ppid"
          [] k = "tty" -> tty]

\* variant: a tool name or tool arguments missing from the record leave no key
WithTool_OmitMissing(s, data, withId) ==
    LET s1 == IF Get(data, "tool_name", Null) # Null
              THEN Put(s, "tool", Get(data, "tool_name", Null)) ELSE s
        s2 == IF data["tool_input"] # Absent THEN Put(s1, "tool_input", data["tool_input"]) ELSE s1
        id == Get(data, "tool_use_id", Null)
    IN IF withId /\ Truthy(id) THEN Put(s2, "tool_use_id", id) ELSE s2

\* state["tool"], state["tool_input"] and the optional state["tool_use_id"]
WithTool(s, data, withId) ==
    LET s1 == Put(s, "tool", Get(data, "tool_name", Null))
        s2 == Put(s1, "tool_input", Get(data, "tool_input", "{}"))
        id == Get(data, "tool_use_id", Null)
    IN IF withId /\ Truthy(id) THEN Put(s2, "tool_use_id", id) ELSE s2

\* the state dict at line 314, before the conversation is attached
BuildState(data, tty) ==
    LET event == Get(data, "hook_event_name", "")
        ntype == Get(data, "notification_type", Null)
        s0 == Put(BaseState(data, tty), "status", StatusOf(event, ntype))
    IN CASE event = "UserPromptSubmit" ->
              LET um == Or(Get(data, "message", Null),
                           Or(Get(data, "prompt", Null), Get(data, "user_prompt", Null)))
              IN IF Truthy(um) THEN Put(s0, "message", um) ELSE s0
         [] event \in {"PreToolUse", "PostToolUse"} -> WithTool(s0, data, TRUE)
         [] event = "PermissionRequest" -> WithTool(s0, data, FALSE)
         [] event = "Notification" ->
              Put(Put(s0, "notification_type", ntype), "message", Get(data, "message", Null))
         [] event = "Stop" ->
              LET sr == Or(Get(data, "stop_reason", Null), Get(data, "message", Null))
              IN IF Truthy(sr) THEN Put(s0, "message", sr) ELSE s0
         [] OTHER -> s0

----------------------------------------------------------------------------
(* Log Tail Reader *)

\* kinds of log line:
\*   "user" / "assistant": an entry of that type with non-empty text
\*   "bad":    not valid JSON (json.loads raises JSONDecodeError)
\*   "blank":  whitespace only
\*   "other":  a JSON object that yields no turn (another type, or empty text)
\*   "nonobj": valid JSON that is not an object (entry.get raises AttributeError)
LineKinds == {"user", "assistant", "bad", "blank", "other", "nonobj"}

TurnKinds == {"user", "assistant"}

RECURSIVE SeqsUpTo(_, _)
SeqsUpTo(S, n) ==
    IF n = 0 THEN {<<>>}
    ELSE LET shorter == SeqsUpTo(S, n - 1)
         IN shorter \cup {Append(t, x) : t \in {u \in shorter : Len(u) = n - 1}, x \in S}

\* a log is a run of equal-shaped lines followed by a few individually chosen lines
Prefixes ==
    {[kind |-> "turn", count |-> 0]}
      \cup {[kind |-> "turn", count |-> c] : c \in {MidRun, LongRun}}

Logs == {[prefix |-> pr, tail |-> t] : pr \in Prefixes, t \in SeqsUpTo(LineKinds, MaxTail)}

\* the lines of the file as f.readlines() returns them; id is the line number and
\* stands for the text of the line
Lines(log) ==
    [i \in 1..(log.prefix.count + Len(log.tail)) |->
        [id |-> i,
         kind |-> IF i <= log.prefix.count
                  THEN (IF i % 2 = 1 THEN "user" ELSE "assistant")
                  ELSE log.tail[i - log.prefix.count]]]

Turn(line) == [role |-> line.kind, content |-> line.id]

\* index of the first line on which the loop of lines 73-110 raises an exception
\* other than JSONDecodeError (Len(w) + 1 when there is none); the outer handler of
\* lines 111-112 ends the loop there and keeps the messages collected so far
FirstRaise(w) ==
    IF \E i \in 1..Len(w) : w[i].kind = "nonobj"
    THEN CHOOSE i \in 1..Len(w) :
            w[i].kind = "nonobj" /\ \A j \in 1..(i - 1) : w[j].kind # "nonobj"
    ELSE Len(w) + 1

IsTurn(line) == line.kind \in TurnKinds

\* the messages list after the loop of lines 73-110 over the window w: one turn for
\* every user / assistant line with text, in order; blank lines, lines that are not
\* JSON and other entries are passed over
ScanLines(w) ==
    LET seen == SelectSeq(SubSeq(w, 1, FirstRaise(w) - 1), IsTurn)
    IN [i \in 1..Len(seen) |-> Turn(seen[i])]

\* variant: the first `limit` messages are kept instead of the last (messages[:limit])
parse_jsonl_messages_FirstN(lines, readable, limit) ==
    IF ~readable THEN <<>>
    ELSE LET messages == ScanLines(LastN(lines, TAIL_WINDOW))
         IN SubSeq(messages, 1, Min(limit, Len(messages)))

\* parse_jsonl_messages on a file with the given lines; readable = FALSE when the
\* path does not exist any more or open()/readlines() raises
parse_jsonl_messages(lines, readable, limit) ==
    IF ~readable THEN <<>>
    ELSE LET messages == ScanLines(LastN(lines, TAIL_WINDOW))
         IN IF messages # <<>> THEN PySliceLast(messages, limit) ELSE <<>>

NoLog == [prefix |-> [kind |-> "turn", count |-> 0], tail |-> <<>>]

\* what the reader never looked at
NoFs == [root |-> FALSE, files |-> {}, readable |-> FALSE, log |-> NoLog]

\* a session log nobody reads: its content does not matter
UnreadLog == [prefix |-> [kind |-> "turn", count |-> MidRun], tail |-> <<>>]

\* the file systems get_jsonl_path / parse_jsonl_messages can meet for a session id:
\* no log root; no file of that name; a file that cannot be read; a readable log.
\* With a falsy cwd get_jsonl_path does not look at the file system at all, so the
\* session log is there or not and is never read.
FileSystems(sid, cwd) ==
    IF ~Truthy(cwd)
    THEN {NoFs, [root |-> TRUE, files |-> {sid}, readable |-> TRUE, log |-> UnreadLog]}
    ELSE {NoFs, [NoFs EXCEPT !.root = TRUE], [NoFs EXCEPT !.root = TRUE, !.files = {"s0"}],
          [NoFs EXCEPT !.root = TRUE, !.files = {sid}]}
           \cup {[root |-> TRUE, files |-> {sid}, readable |-> TRUE, log |-> l] : l \in Logs}

\* nothing is carried over from an earlier invocation of the script
NoPrior == [set |-> FALSE, state |-> EmptyDict, tty |-> Null]

\* get_jsonl_path returns a path (TRUE) or None (FALSE)
get_jsonl_path(session_id, cwd, f) ==
    Truthy(cwd) /\ f.root /\ session_id \in f.files

----------------------------------------------------------------------------
(* Observer replies and decision artifacts *)

\* bytes returned by sock.recv(4096):
\*   "empty":       b"" (the peer closed without replying)
\*   "undecodable": not valid UTF-8
\*   "notjson":     text that is not a JSON document (also a truncated document)
\*   "falsy":       a JSON value other than an object that is falsy (null, 0, [], "")
\*   "nonobj":      a JSON value other than an object that is truthy ([1], "allow", 5)
\*   "object":      a JSON object with the given decision / reason keys ({} when both absent)
Replies ==
    {[kind |-> k, decision |-> Absent, reason |-> Absent] :
        k \in {"empty", "undecodable", "notjson", "falsy", "nonobj"}}
      \cup {[kind |-> "object", decision |-> d, reason |-> r] :
              d \in {Absent, "allow", "deny", "ask", "maybe"}, r \in {Absent, "", "x"}}

ReplyNone == [kind |-> "none", decision |-> Absent, reason |-> Absent]

\* bool(response) for the value send_event returned
ResponseTruthy(r) ==
    \/ r.kind = "nonobj"
    \/ r.kind = "object" /\ (r.decision # Absent \/ r.reason # Absent)

DEFAULT_DENY_MESSAGE == "Denied by user via ClaudeIsland"

\* variant: the deny message is the reason as it came, without the default text
DecisionArtifact_NoDefault(r) ==
    LET decision == Get(r, "decision", "ask")
        reason == Get(r, "reason", "")
    IN CASE decision = "allow" -> <<[behavior |-> "allow", message |-> Absent]>>
         [] decision = "deny" -> <<[behavior |-> "deny", message |-> reason]>>
         [] OTHER -> <<>>

\* variant: every verdict other than "deny" is printed as an approval
DecisionArtifact_AllowUnlessDeny(r) ==
    LET decision == Get(r, "decision", "ask")
        reason == Get(r, "reason", "")
    IN IF decision = "deny"
       THEN <<[behavior |-> "deny", message |-> Or(reason, DEFAULT_DENY_MESSAGE)]>>
       ELSE <<[behavior |-> "allow", message |-> Absent]>>

\* what main prints for a response that is a dict (lines 248-274)
DecisionArtifact(r) ==
    LET decision == Get(r, "decision", "ask")
        reason == Get(r, "reason", "")
    IN CASE decision = "allow" -> <<[behavior |-> "allow", message |-> Absent]>>
         [] decision = "deny" ->
              <<[behavior |-> "deny", message |-> Or(reason, DEFAULT_DENY_MESSAGE)]>>
         [] OTHER -> <<>>

\* variant: the JSONDecodeError handler leaves with the success status
BAD_INPUT_EXIT_Success == 1 - 1

\* exit status of sys.exit(1) after json.load(sys.stdin) raised JSONDecodeError
BAD_INPUT_EXIT == 1

\* exit status of the interpreter after an uncaught exception
UNCAUGHT_EXIT == 1

----------------------------------------------------------------------------
(* The process *)

Init ==
    /\ pc = "start"
    /\ stdin \in Stdins
    /\ env \in Envs
    /\ ttyres \in TTYs
    /\ state = EmptyDict
    /\ conversation = <<>>
    /\ caller = "none"
    /\ response = ReplyNone
    /\ reply = ReplyNone
    /\ sent = <<>>
    /\ connects = 0
    /\ endpoint = NoEndpoint
    /\ recvs = 0
    /\ stdout = <<>>
    /\ exitcode = NotExited
    /\ raised = "none"
    /\ readerCalls = 0
    /\ parseCalls = 0
    /\ fs = NoFs
    /\ ops = <<>>
    /\ clock = 0
    /\ limitArg = NoLimit
    /\ prior = NoPrior

\* sys.exit(code)
Exit(code) == pc' = "exited" /\ exitcode' = code /\ raised' = "none"

\* an exception nobody catches: traceback on stderr, exit status 1
Uncaught(exc) == pc' = "exited" /\ exitcode' = UNCAUGHT_EXIT /\ raised' = exc

\* main, lines 187-190: json.load(sys.stdin) raises JSONDecodeError
MainBadInput ==
    /\ pc = "start"
    /\ stdin.kind = "garbage"
    /\ Exit(BAD_INPUT_EXIT)
    /\ UNCHANGED <<stdin, env, ttyres, state, conversation, caller, response, reply,
                   sent, connects, endpoint, recvs, stdout, readerCalls, parseCalls, fs,
                   ops, clock, limitArg, prior>>

\* main, line 192: the document parsed but is not a dict, data.get raises AttributeError
MainNotADict ==
    /\ pc = "start"
    /\ stdin.kind = "nonobject"
    /\ Uncaught("AttributeError")
    /\ UNCHANGED <<stdin, env, ttyres, state, conversation, caller, response, reply,
                   sent, connects, endpoint, recvs, stdout, readerCalls, parseCalls, fs,
                   ops, clock, limitArg, prior>>

\* main, lines 279-283: Notification / permission_prompt leaves through sys.exit(0)
MainSuppressed ==
    /\ pc = "start"
    /\ stdin.kind = "object"
    /\ IsSuppressed(stdin.data)
    /\ Exit(0)
    /\ state' = BaseState(stdin.data, ttyres)
    /\ UNCHANGED <<stdin, env, ttyres, conversation, caller, response, reply,
                   sent, connects, endpoint, recvs, stdout, readerCalls, parseCalls, fs,
                   ops, clock, limitArg, prior>>

\* main, lines 192-314: build the state; PermissionRequest calls send_event at once
\* (line 245), every other category goes on to line 317
MainNormalize ==
    /\ pc = "start"
    /\ stdin.kind = "object"
    /\ ~IsSuppressed(stdin.data)
    /\ state' = BuildState(stdin.data, ttyres)
    /\ IF Get(stdin.data, "hook_event_name", "") = "PermissionRequest"
       THEN pc' = "se_config" /\ caller' = "perm"
       ELSE pc' = "attach" /\ caller' = "none"
    /\ UNCHANGED <<stdin, env, ttyres, conversation, response, reply, sent, connects,
                   endpoint, recvs, stdout, exitcode, raised, readerCalls, parseCalls, fs,
                   ops, clock, limitArg, prior>>

\* main, lines 316-322, when the condition of line 317 is false
MainSkipConversation ==
    /\ pc = "attach"
    /\ ~(is_remote_session(env) /\ state["event"] \in ConversationEvents)
    /\ pc' = "se_config"
    /\ caller' = "final"
    /\ UNCHANGED <<stdin, env, ttyres, state, conversation, response, reply, sent,
                   connects, endpoint, recvs, stdout, exitcode, raised, readerCalls,
                   parseCalls, fs,
                   ops, clock, limitArg, prior>>

\* main, lines 316-322, when the condition of line 317 is true: get_jsonl_path,
\* then parse_jsonl_messages(limit=20) if a path was found, then the attachment
MainAttachConversation ==
    /\ pc = "attach"
    /\ is_remote_session(env) /\ state["event"] \in ConversationEvents
    /\ \E f \in FileSystems(state["session_id"], state["cwd"]) :
         LET found == get_jsonl_path(state["session_id"], state["cwd"], f)
             messages == IF found
                         THEN parse_jsonl_messages(Lines(f.log), f.readable, MAIN_LIMIT)
                         ELSE <<>>
         IN /\ fs' = f
            /\ readerCalls' = readerCalls + 1
            /\ parseCalls' = IF found THEN parseCalls + 1 ELSE parseCalls
            /\ limitArg' = IF found THEN MAIN_LIMIT ELSE limitArg
            /\ IF messages # <<>>
               THEN /\ state' = Put(state, "conversation", "<turns>")
                    /\ conversation' = messages
               ELSE UNCHANGED <<state, conversation>>
    /\ pc' = "se_config"
    /\ caller' = "final"
    /\ UNCHANGED <<stdin, env, ttyres, response, reply, sent, connects, endpoint,
                   recvs, stdout, exitcode, raised, ops, clock, prior>>

\* send_event returns r to its caller: line 245 (then line 247) or line 325 (then the end)
Return(r) ==
    /\ response' = r
    /\ pc' = IF caller = "perm" THEN "decide" ELSE "end"
    /\ UNCHANGED <<exitcode, raised>>

\* send_event, line 157: get_connection_config(); the ValueError of int() is not
\* in the except clause of line 182
SendEventConfig ==
    /\ pc = "se_config"
    /\ IF ConfigRaises(env)
       THEN Uncaught("ValueError") /\ UNCHANGED <<endpoint, response>>
       ELSE /\ endpoint' = get_connection_config(env)
            /\ pc' = "se_connect"
            /\ UNCHANGED <<exitcode, raised, response>>
    /\ UNCHANGED <<stdin, env, ttyres, state, conversation, caller, reply, sent,
                   connects, recvs, stdout, readerCalls, parseCalls, fs,
                   ops, clock, limitArg, prior>>

ConnectOutcomes == {"ok", "refused", "timeout"}

SendOutcomes == {"ok", "error", "timeout"}

\* seconds a blocking socket call can take when it does not time out
Delays == {0, SlowStep}

\* sock.settimeout(TIMEOUT_SECONDS), line 163: the timeout of each blocking socket
\* call; a call that times out has waited the whole period, a call that succeeds
\* has waited less, and a refusal or reset is reported at once
Elapsed(outcome) ==
    CASE outcome = "timeout" -> {TIMEOUT_SECONDS}
      [] outcome \in {"ok", "data"} -> Delays
      [] OTHER -> {0}

\* one socket call of send_event, recorded with its result
Op(name, result) == [op |-> name, result |-> result]

\* variant: the reply is awaited whatever the status
AwaitsDecision_Always(st) == "status" \in DOMAIN st

\* send_event, line 173: state.get("status") == "waiting_for_approval"
AwaitsDecision(st) == "status" \in DOMAIN st /\ st["status"] = "waiting_for_approval"

\* send_event, lines 159-168: socket(), settimeout(), connect()
SendEventConnect ==
    /\ pc = "se_connect"
    /\ connects' = connects + 1
    /\ IF ConnectOverflows(endpoint)
       THEN /\ Uncaught("OverflowError")
            /\ ops' = Append(ops, Op("connect", "overflow"))
            /\ UNCHANGED <<response, clock>>
       ELSE \E outcome \in ConnectOutcomes : \E d \in Elapsed(outcome) :
              /\ ops' = Append(ops, Op("connect", outcome))
              /\ clock' = clock + d
              /\ IF outcome = "ok"
                 THEN pc' = "se_sendall" /\ UNCHANGED <<exitcode, raised, response>>
                 ELSE Return(ReplyNone)
    /\ UNCHANGED <<stdin, env, ttyres, state, conversation, caller, reply, sent,
                   endpoint, recvs, stdout, readerCalls, parseCalls, fs, limitArg, prior>>

\* send_event, line 170: sendall(json.dumps(state).encode()); a broken connection or
\* a timeout raises socket.error, which line 182 turns into None
SendEventSendAll ==
    /\ pc = "se_sendall"
    /\ \E outcome \in SendOutcomes : \E d \in Elapsed(outcome) :
         /\ ops' = Append(ops, Op("sendall", outcome))
         /\ clock' = clock + d
         /\ IF outcome = "ok"
            THEN /\ sent' = Append(sent, [state |-> state, conversation |-> conversation,
                                           endpoint |-> endpoint])
                 /\ pc' = IF AwaitsDecision(state) THEN "se_recv" ELSE "se_close"
                 /\ UNCHANGED <<exitcode, raised, response>>
            ELSE Return(ReplyNone) /\ UNCHANGED sent
    /\ UNCHANGED <<stdin, env, ttyres, state, conversation, caller, reply, connects,
                   endpoint, recvs, stdout, readerCalls, parseCalls, fs, limitArg, prior>>

\* send_event, lines 179-181: close and return None
SendEventClose ==
    /\ pc = "se_close"
    /\ ops' = Append(ops, Op("close", "ok"))
    /\ Return(ReplyNone)
    /\ UNCHANGED <<stdin, env, ttyres, state, conversation, caller, reply, sent,
                   connects, endpoint, recvs, stdout, readerCalls, parseCalls, fs,
                   clock, limitArg, prior>>

\* send_event, lines 174-177 and 181-183: one recv; a timeout or reset raises
\* socket.error (-> None, the socket is not closed); otherwise close, then b"" returns
\* None and anything else goes through json.loads(response.decode()), whose
\* JSONDecodeError is caught and whose UnicodeDecodeError is not
SendEventRecv ==
    /\ pc = "se_recv"
    /\ recvs' = recvs + 1
    /\ \/ \E outcome \in {"error", "timeout"} : \E d \in Elapsed(outcome) :
            /\ ops' = Append(ops, Op("recv", outcome))
            /\ clock' = clock + d
            /\ Return(ReplyNone)
            /\ UNCHANGED reply
       \/ \E r \in Replies : \E d \in Elapsed("data") :
            /\ ops' = ops \o <<Op("recv", "data"), Op("close", "ok")>>
            /\ clock' = clock + d
            /\ reply' = r
            /\ CASE r.kind = "undecodable" -> Uncaught("UnicodeDecodeError") /\ UNCHANGED response
                 [] r.kind \in {"empty", "notjson"} -> Return(ReplyNone)
                 [] OTHER -> Return(r)
    /\ UNCHANGED <<stdin, env, ttyres, state, conversation, caller, sent, connects,
                   endpoint, stdout, readerCalls, parseCalls, fs, limitArg, prior>>

\* main, lines 247-277: act on the response of the permission round trip
MainDecide ==
    /\ pc = "decide"
    /\ IF ~ResponseTruthy(response)
       THEN Exit(0) /\ UNCHANGED stdout
       ELSE IF response.kind # "object"
            THEN Uncaught("AttributeError") /\ UNCHANGED stdout
            ELSE Exit(0) /\ stdout' = stdout \o DecisionArtifact(response)
    /\ UNCHANGED <<stdin, env, ttyres, state, conversation, caller, response, reply,
                   sent, connects, endpoint, recvs, readerCalls, parseCalls, fs,
                   ops, clock, limitArg, prior>>

\* main returns after line 325: exit status 0
MainEnd ==
    /\ pc = "end"
    /\ Exit(0)
    /\ UNCHANGED <<stdin, env, ttyres, state, conversation, caller, response, reply,
                   sent, connects, endpoint, recvs, stdout, readerCalls, parseCalls, fs,
                   ops, clock, limitArg, prior>>

Next ==
    \/ MainBadInput
    \/ MainNotADict
    \/ MainSuppressed
    \/ MainNormalize
    \/ MainSkipConversation
    \/ MainAttachConversation
    \/ SendEventConfig
    \/ SendEventConnect
    \/ SendEventSendAll
    \/ SendEventClose
    \/ SendEventRecv
    \/ MainDecide
    \/ MainEnd

Spec == Init /\ [][Next]_vars

\* the process is scheduled until it exits: a step that can be taken is taken, and
\* every blocking call returns or raises within its timeout
FairSpec == Spec /\ WF_vars(Next)

----------------------------------------------------------------------------
(* Two invocations on the same record *)

\* the agent runs the script again with the same record on stdin: a new process
\* under the same environment variables, which builds its state from scratch
\* (lines 192-208) and resolves its tty anew (line 199); what the first invocation
\* built is kept for comparison
Reinvoke ==
    /\ pc = "se_config"
    /\ ~prior.set
    /\ prior' = [set |-> TRUE, state |-> state, tty |-> ttyres]
    /\ ttyres' \in TTYs
    /\ pc' = "start"
    /\ state' = EmptyDict
    /\ caller' = "none"
    /\ UNCHANGED <<stdin, env, conversation, response, reply, sent, connects, endpoint,
                   recvs, stdout, exitcode, raised, readerCalls, parseCalls, fs, ops,
                   clock, limitArg>>

\* records whose state is built without the session log (the condition of line 317
\* is false)
InitTwice ==
    /\ Init
    /\ stdin.kind = "object"
    /\ ~(is_remote_session(env)
           /\ Get(stdin.data, "hook_event_name", "") \in ConversationEvents)

NextTwice ==
    \/ MainSuppressed
    \/ MainNormalize
    \/ MainSkipConversation
    \/ Reinvoke

SpecTwice == InitTwice /\ [][NextTwice]_vars

----------------------------------------------------------------------------
(* parse_jsonl_messages on its own *)

\* the limits a caller hands over: small ones from 0 on, the default of the
\* signature and the one main uses
Limits == (0..MaxLimit) \cup {DEFAULT_LIMIT, MAIN_LIMIT}

\* a session log that exists and can be read is all there is
InitTail ==
    /\ Init
    /\ stdin.kind = "garbage"
    /\ env.host = Absent
    /\ ttyres = Null

\* parse_jsonl_messages(jsonl_path, limit) on a readable log, lines 63-115
CallParse ==
    /\ pc = "start"
    /\ parseCalls = 0
    /\ \E l \in Logs : \E n \in Limits :
         /\ fs' = [root |-> TRUE, files |-> {"s1"}, readable |-> TRUE, log |-> l]
         /\ limitArg' = n
         /\ conversation' = parse_jsonl_messages(Lines(l), TRUE, n)
    /\ parseCalls' = parseCalls + 1
    /\ UNCHANGED <<pc, stdin, env, ttyres, state, caller, response, reply, sent,
                   connects, endpoint, recvs, stdout, exitcode, raised, readerCalls,
                   ops, clock, prior>>

NextTail == CallParse

SpecTail == InitTail /\ [][NextTail]_vars

----------------------------------------------------------------------------
(* Vocabulary of the properties *)

IsRecord == stdin.kind = "object"

Event == Get(stdin.data, "hook_event_name", "")

Subtype == stdin.data["notification_type"]

PermissionPath == IsRecord /\ Event = "PermissionRequest"

\* the permission round trip was started and ran to an outcome: connect was called
\* on a usable endpoint and the process is over
RoundTripOver == PermissionPath /\ pc = "exited" /\ connects = 1 /\ ~ConnectOverflows(endpoint)

AllowDoc == [behavior |-> "allow", message |-> Absent]

DenyDoc(text) == [behavior |-> "deny", message |-> text]

SentStates == {sent[i].state : i \in 1..Len(sent)}

\* a state has been handed to send_event
HandedToSendEvent == caller # "none"

----------------------------------------------------------------------------
(* C1 *)

\* the outcomes of the round trip the claim lists: no reply at all (refusal, timeout,
\* failed write), an empty reply, or a reply that is a JSON object
ListedOutcome == reply.kind \in {"none", "empty", "object"}

\* C1: on the PermissionRequest path a reply with decision "allow" prints exactly one
\* allow artifact, a reply with decision "deny" prints exactly one deny artifact whose
\* message is the reply's reason or the default text when there is no reason, and
\* "ask", any other verdict, an empty reply, a refusal or a timeout print nothing;
\* the exit status is 0 in each of these cases.
C1_DecisionRoundTrip ==
    (RoundTripOver /\ ListedOutcome) =>
        /\ exitcode = 0
        /\ stdout =
             IF reply.kind = "object" /\ reply.decision = "allow" THEN <<AllowDoc>>
             ELSE IF reply.kind = "object" /\ reply.decision = "deny"
                  THEN IF reply.reason \in {Absent, ""}
                       THEN <<DenyDoc("Denied by user via ClaudeIsland")>>
                       ELSE <<DenyDoc(reply.reason)>>
                  ELSE <<>>

\* a deny reply without a reason was answered with the default text
C1_Witness ==
    /\ RoundTripOver
    /\ reply = [kind |-> "object", decision |-> "deny", reason |-> Absent]
    /\ stdout = <<DenyDoc("Denied by user via ClaudeIsland")>>
    /\ exitcode = 0

----------------------------------------------------------------------------
(* C2 *)

\* the status table of the claim
TableStatus ==
    CASE Event = "UserPromptSubmit" -> "processing"
      [] Event = "PreToolUse" -> "running_tool"
      [] Event = "PostToolUse" -> "processing"
      [] Event = "PermissionRequest" -> "waiting_for_approval"
      [] Event = "Notification" /\ Subtype = "idle_prompt" -> "waiting_for_input"
      [] Event = "Notification" /\ Subtype # "idle_prompt" -> "notification"
      [] Event = "Stop" -> "waiting_for_input"
      [] Event = "SubagentStop" -> "waiting_for_input"
      [] Event = "SessionStart" -> "waiting_for_input"
      [] Event = "SessionEnd" -> "ended"
      [] Event = "PreCompact" -> "compacting"
      [] OTHER -> "unknown"

HasTableStatus(st) ==
    /\ "status" \in DOMAIN st
    /\ st["status"] \notin {Null, Absent}
    /\ Event \in Recognized => st["status"] = TableStatus

\* C2: for every record with a recognized category the state handed to send_event
\* (and every state written to the socket) has exactly the status of the table, and
\* the status of a state that is sent is never absent or null.
C2_StatusTable ==
    /\ HandedToSendEvent => HasTableStatus(state)
    /\ \A st \in SentStates : HasTableStatus(st)

\* a Notification without a subtype was sent with status "notification"
C2_Witness ==
    /\ Event = "Notification" /\ Subtype = Absent
    /\ Len(sent) = 1
    /\ sent[1].state["status"] = "notification"

----------------------------------------------------------------------------
(* C3 *)

\* C3: the exit status is 0 on every invocation that completes normally and is
\* nonzero only when standard input is unparseable: no observer reply, transport
\* failure, environment configuration or parseable input record produces a nonzero
\* exit.  (Input that is JSON but no event record is counted with the unparseable
\* input here, so that only event records can violate the formula.)
C3_NonzeroOnlyOnUnparseableInput ==
    pc = "exited" =>
        /\ stdin.kind = "garbage" => exitcode # 0
        /\ IsRecord => exitcode = 0

----------------------------------------------------------------------------
(* C4 *)

\* C4: at most one JSON document is written to standard output, and one is written
\* only when the category is PermissionRequest and the observer's verdict is
\* "allow" or "deny".
C4_AtMostOneArtifact ==
    /\ Len(stdout) <= 1
    /\ stdout # <<>> =>
          /\ PermissionPath
          /\ reply.kind = "object"
          /\ reply.decision \in {"allow", "deny"}
          /\ stdout[1].behavior = reply.decision

\* an allow verdict was printed, once
C4_Witness ==
    /\ pc = "exited"
    /\ PermissionPath
    /\ reply.kind = "object" /\ reply.decision = "allow"
    /\ stdout = <<AllowDoc>>

----------------------------------------------------------------------------
(* C5 *)

PermissionPromptNotification ==
    IsRecord /\ Event = "Notification" /\ Subtype = "permission_prompt"

\* C5: a Notification with subtype "permission_prompt" makes no connection attempt,
\* never invokes the Log Tail Reader, writes nothing to standard output and exits
\* with status 0, in local and in remote configuration.
C5_PermissionPromptSuppressed ==
    PermissionPromptNotification =>
        /\ pc \in {"start", "exited"}
        /\ pc = "exited" => exitcode = 0
        /\ connects = 0 /\ sent = <<>> /\ recvs = 0
        /\ readerCalls = 0 /\ parseCalls = 0
        /\ stdout = <<>>

\* a permission_prompt notification in a remote session has exited
C5_Witness ==
    /\ PermissionPromptNotification
    /\ env.host = "mac"
    /\ stdin.data["cwd"] = "/w"
    /\ pc = "exited" /\ exitcode = 0

----------------------------------------------------------------------------
(* C6 *)

\* C6: when standard input is not parseable JSON the invocation exits with a nonzero
\* status; no connection is attempted, no state is built or sent, no log is read
\* and nothing is written to standard output.
C6_MalformedInputAborts ==
    stdin.kind = "garbage" =>
        /\ pc \in {"start", "exited"}
        /\ pc = "exited" => exitcode \notin {0, NotExited}
        /\ connects = 0 /\ endpoint = NoEndpoint
        /\ state = EmptyDict /\ sent = <<>> /\ caller = "none"
        /\ readerCalls = 0 /\ parseCalls = 0
        /\ stdout = <<>>

\* unparseable input in a remote session has exited
C6_Witness ==
    /\ stdin.kind = "garbage"
    /\ env.host = "mac"
    /\ pc = "exited" /\ exitcode = 1

----------------------------------------------------------------------------
(* C7 *)

\* the exceptions that leave send_event through its except clause uncaught
SendEventRaised == raised \in {"ValueError", "OverflowError", "UnicodeDecodeError"}

\* C7: send_event never raises to its caller; every transport-level failure
\* (endpoint selection, connect, send, receive, undecodable or malformed reply)
\* surfaces to main as None.
C7_SendEventNeverRaises == ~SendEventRaised

----------------------------------------------------------------------------
(* C8 *)

IsValidTurnLine(line) == line.kind \in {"user", "assistant"}

\* the tail window of a log: its last 100 lines
Window(log) ==
    LET all == Lines(log)
    IN IF Len(all) <= 100 THEN all ELSE SubSeq(all, Len(all) - 99, Len(all))

\* the valid turns of the tail window, in log order
WindowTurns(log) ==
    LET v == SelectSeq(Window(log), IsValidTurnLine)
    IN [i \in 1..Len(v) |-> [role |-> v[i].kind, content |-> v[i].id]]

\* the last min(20, n) of n turns
LastTwenty(turns) ==
    LET n == Len(turns)
        k == IF n < 20 THEN n ELSE 20
    IN [i \in 1..k |-> turns[n - k + i]]

\* every line of the window is a line the loop gets past (a turn, an unparseable
\* line, a blank line or an entry that is no turn)
NoAbortingLine(log) ==
    LET w == Window(log) IN \A i \in 1..Len(w) : w[i].kind # "nonobj"

\* the Log Tail Reader was handed the session's log and could read it
LogRead == parseCalls = 1 /\ fs.readable

----------------------------------------------------------------------------
(* C9 *)

\* the Transport Selector yields the local endpoint
SelectorYieldsLocal == ~Truthy(env.host)

\* C9: the Log Tail Reader is invoked only if the Transport Selector yields Remote
\* and the category is one of Stop, UserPromptSubmit, SessionStart, Notification;
\* when the selector yields Local the reader is never invoked and no conversation
\* is attached.
C9_ReaderOnlyWhenRemote ==
    /\ readerCalls > 0 => (~SelectorYieldsLocal /\ Event \in ConversationEvents)
    /\ SelectorYieldsLocal =>
          (readerCalls = 0 /\ parseCalls = 0 /\ "conversation" \notin DOMAIN state)

----------------------------------------------------------------------------
(* C10 *)

\* C10: every category that is not exactly one of the recognized categories
\* (also the empty or absent category and case variants such as "stop") yields a
\* state with status "unknown" and no fields beyond session_id, cwd, event, pid,
\* tty and status, in local and in remote configuration.
C10_UnknownCategory ==
    (IsRecord /\ Event \notin Recognized /\ pc # "start") =>
        /\ DOMAIN state = {"session_id", "cwd", "event", "pid", "tty", "status"}
        /\ state["status"] = "unknown"
        /\ \A st \in SentStates : st = state

\* the case variant "stop" was sent from a remote session as an unknown event
C10_Witness ==
    /\ IsRecord /\ Event = "stop"
    /\ env.host = "mac" /\ stdin.data["cwd"] = "/w"
    /\ Len(sent) = 1
    /\ sent[1].state["status"] = "unknown"
    /\ sent[1].conversation = <<>>

----------------------------------------------------------------------------
(* C11 *)

\* the second invocation has built its state
BuiltAgain == prior.set /\ pc = "se_config"

----------------------------------------------------------------------------
(* C12 *)

\* send_event has called get_connection_config and the call is over
SelectorCalled == HandedToSendEvent /\ pc # "se_config"

\* the port the environment configures, as a number
ConfiguredPort ==
    CASE env.port = Absent -> 52945
      [] env.port = "52946" -> 52946
      [] env.port = "70000" -> 70000
      [] OTHER -> NoPort

\* C12: get_connection_config has no error path: for every environment it returns
\* exactly one endpoint, the Local one with /tmp/claude-island.sock when no remote
\* host is configured, and the Remote one with the configured host and the
\* configured port (52945 when none is configured) whenever a remote-host value is
\* present.
C12_SelectorTotal ==
    SelectorCalled =>
        /\ raised # "ValueError"
        /\ env.host = Absent =>
             endpoint = [type |-> "unix", host |-> "/tmp/claude-island.sock", port |-> NoPort]
        /\ env.host # Absent =>
             endpoint = [type |-> "tcp", host |-> env.host, port |-> ConfiguredPort]

----------------------------------------------------------------------------
(* C13 *)

OpNames == [i \in 1..Len(ops) |-> ops[i].op]

IsPrefix(s, t) == Len(s) <= Len(t) /\ \A i \in 1..Len(s) : s[i] = t[i]

\* the write of line 170 has completed
WriteCompleted == Len(ops) >= 2 /\ ops[2] = Op("sendall", "ok")

ReceivePerformed == \E i \in 1..Len(ops) : ops[i].op = "recv"

StatusIsApproval == "status" \in DOMAIN state /\ state["status"] = "waiting_for_approval"

\* C13: within one send_event call the socket operations are connect, then the full
\* write of the state, then a receive if and only if the status is
\* waiting_for_approval, then close: no receive for any other status, no receive
\* before the write has completed, at most one receive, and once the write has
\* completed with status waiting_for_approval the receive is the next operation.
C13_OperationOrder ==
    /\ \/ IsPrefix(OpNames, <<"connect", "sendall", "recv", "close">>)
       \/ IsPrefix(OpNames, <<"connect", "sendall", "close">>)
    /\ ReceivePerformed => (StatusIsApproval /\ WriteCompleted /\ Len(sent) = 1)
    /\ recvs <= 1
    /\ (WriteCompleted /\ StatusIsApproval /\ pc # "se_recv") => ReceivePerformed
    /\ (WriteCompleted /\ ~StatusIsApproval /\ pc # "se_close") =>
          OpNames = <<"connect", "sendall", "close">>

\* a PermissionRequest went through connect, write, one receive and close
C13_Witness ==
    /\ pc = "exited"
    /\ StatusIsApproval
    /\ OpNames = <<"connect", "sendall", "recv", "close">>
    /\ recvs = 1
    /\ reply.kind = "object"

----------------------------------------------------------------------------
(* C14 *)

\* a parseable event that is not the suppressed permission_prompt notification
MustBeSent == IsRecord /\ ~PermissionPromptNotification

\* C14: an invocation makes at most one connection attempt and sends the state at
\* most once: exactly one attempt for every parseable event that is not a suppressed
\* permission_prompt notification and none otherwise; the PermissionRequest path
\* never reaches the final send, and the state is not modified after it is sent.
C14_OneAttemptPerEvent ==
    /\ connects <= 1
    /\ Len(sent) <= 1
    /\ ~MustBeSent => connects = 0
    /\ (pc = "exited" /\ MustBeSent) => connects = 1
    /\ PermissionPath => caller # "final"
    /\ Len(sent) = 1 => (sent[1].state = state /\ sent[1].conversation = conversation)

----------------------------------------------------------------------------
(* C15 *)

\* the last socket call was a receive that timed out
ReceiveTimedOut == ops # <<>> /\ ops[Len(ops)] = Op("recv", "timeout")

C15_Terminates == <>(pc = "exited")

C15_TimeoutIsNoDecision ==
    [](ReceiveTimedOut /\ pc = "exited" => stdout = <<>> /\ exitcode = 0)

\* time passes in a blocking socket call only in the receive
C15_OnlyReceiveWaits == [][clock' # clock => pc = "se_recv"]_vars

\* C15: every invocation eventually terminates; on the PermissionRequest path a
\* receive that times out is treated as no decision (nothing on standard output,
\* exit status 0); and no point of an invocation other than that receive waits on
\* the observer.
C15_TerminatesWaitingOnlyInReceive ==
    /\ C15_Terminates
    /\ C15_TimeoutIsNoDecision
    /\ C15_OnlyReceiveWaits

----------------------------------------------------------------------------
(* C16 *)

\* the blocking socket calls made so far (close does not block)
BlockingCalls == Cardinality({i \in 1..Len(ops) : ops[i].op \in {"connect", "sendall", "recv"}})

----------------------------------------------------------------------------
(* C17 *)

\* C17: parse_jsonl_messages treats each line of the tail window on its own: a line
\* that is torn, corrupt or not a well-formed record (also one that is JSON but not
\* an object) is skipped, and the turn of every well-formed user / assistant line of
\* the window, before and after it, is still extracted (main keeps the last 20).
C17_LinesIndependent ==
    LogRead => conversation = LastTwenty(WindowTurns(fs.log))

----------------------------------------------------------------------------
(* C18 *)

\* get_jsonl_path was called and returned a handle: main hands whatever it returns
\* to parse_jsonl_messages (lines 319-320)
HandleReturned == readerCalls = 1 /\ parseCalls = 1

\* C18: get_jsonl_path(session_id, cwd) returns none exactly when the log root does
\* not exist or no project directory under it holds <session_id>.jsonl; whenever
\* such a file exists it returns a handle, for every value of cwd, the empty and the
\* absent one included.
C18_HandleIffFileExists ==
    readerCalls = 1 =>
        (HandleReturned <=> (fs.root /\ state["session_id"] \in fs.files))

----------------------------------------------------------------------------
(* C19 *)

\* main has built the state of an event that is not suppressed
StateBuilt == IsRecord /\ "status" \in DOMAIN state

Missing(k) == stdin.data[k] = Absent

HasKey(k) == k \in DOMAIN state

\* the record carries no text the message of the state could come from
NoMessageSource ==
    CASE Event = "UserPromptSubmit" ->
           Missing("message") /\ Missing("prompt") /\ Missing("user_prompt")
      [] Event = "Stop" -> Missing("stop_reason") /\ Missing("message")
      [] OTHER -> Missing("message")

\* C19: for every event category an optional payload field missing from the record
\* (tool name, tool arguments, tool invocation id, message, notification subtype,
\* stop reason) is left out of the state: its key does not appear at all.
C19_MissingFieldOmitted ==
    StateBuilt =>
        /\ Missing("tool_name") => ~HasKey("tool")
        /\ Missing("tool_input") => ~HasKey("tool_input")
        /\ Missing("tool_use_id") => ~HasKey("tool_use_id")
        /\ NoMessageSource => ~HasKey("message")
        /\ Missing("notification_type") => ~HasKey("notification_type")

ToolEvent == Event \in {"PreToolUse", "PostToolUse", "PermissionRequest"}

\* C19, amended: a missing tool invocation id, prompt text or stop text leaves no key
\* in the state, whereas for a tool event the keys tool and tool_input are always
\* there (null, and an empty object, when the record has none) and for a
\* notification the keys notification_type and message are always there (null when
\* the record has none); no other category has any of these keys.
C19_MissingFieldOmittedOrNull ==
    StateBuilt =>
        /\ Missing("tool_use_id") => ~HasKey("tool_use_id")
        /\ (Event \in {"UserPromptSubmit", "Stop"} /\ NoMessageSource) => ~HasKey("message")
        /\ ToolEvent =>
             /\ HasKey("tool") /\ HasKey("tool_input")
             /\ Missing("tool_name") => state["tool"] = Null
             /\ Missing("tool_input") => state["tool_input"] = "{}"
        /\ Event = "Notification" =>
             /\ HasKey("notification_type") /\ HasKey("message")
             /\ Missing("notification_type") => state["notification_type"] = Null
             /\ Missing("message") => state["message"] = Null
        /\ ~ToolEvent => (~HasKey("tool") /\ ~HasKey("tool_input"))
        /\ Event # "Notification" => ~HasKey("notification_type")
        /\ Event \notin {"UserPromptSubmit", "Stop", "Notification"} => ~HasKey("message")

\* a PreToolUse record without tool name, arguments and invocation id was built into
\* a state with a null tool, empty arguments and no invocation id
C19_Witness ==
    /\ StateBuilt
    /\ Event = "PreToolUse"
    /\ Missing("tool_name") /\ Missing("tool_input") /\ Missing("tool_use_id")
    /\ state["tool"] = Null
    /\ state["tool_input"] = "{}"
    /\ ~HasKey("tool_use_id")

----------------------------------------------------------------------------
(* C20 *)

\* parse_jsonl_messages has returned
Parsed == parseCalls = 1 /\ limitArg # NoLimit

\* every returned turn comes from one of the last 100 lines of the file
FromWindow ==
    LET n == Len(Lines(fs.log))
    IN \A i \in 1..Len(conversation) :
          conversation[i].content > n - 100 /\ conversation[i].content <= n

\* C20: parse_jsonl_messages(handle, limit) returns at most limit turns for every
\* limit from 0 on and every log content, and looks only at the last 100 lines of
\* the file whatever the limit.
C20_AtMostLimitTurns ==
    Parsed => (Len(conversation) <= limitArg /\ FromWindow)

====
